---- MODULE Spec2Model ----
(***************************************************************************)
(* NihonGo Master: the translate flow and the history / saved-items store  *)
(* of the two App components of the repository:                            *)
(*   "App"        - src/App.tsx (history cap 10, save toggle inline)       *)
(*   "EarlierApp" - src/unnamed/part_002 (history cap 6, saveToHistory,    *)
(*                  toggleSavedItem, delete, clear, export, import)        *)
(* Texts are sequences of one-character strings so that trim() and         *)
(* toLowerCase() are computed, not assumed.                                *)
(***************************************************************************)
EXTENDS Integers, Sequences, FiniteSets, Bags, TLC

VARIABLES
  app,               \* which App component is mounted
  inputText,         \* useState('')  : the textarea
  appState,          \* useState(AppState.IDLE)
  result,            \* useState<TranslationResult | null>(null)
  errorMsg,          \* useState('')
  isQuotaExceeded,   \* useState(false)            (App only)
  history,           \* useState<HistoryItem[]>([])
  savedItems,        \* useState<HistoryItem[]>([])
  localStorage,      \* the two persisted slots
  now,               \* the reading of Date.now()
  pendingTranslate,  \* translateTextToJapanese calls awaiting their response
  pendingRead,       \* FileReader.readAsText calls awaiting onload
  alertShown,        \* the modal alert() on screen, "" when none
  recorded,          \* observer: normalized texts recorded since history was
                     \* last empty, most recent first, each once
  dictQuery,         \* useState('')  : the dictionary search box   (App only)
  dictEntry,         \* useState<DictionaryEntry | null>(null)      (App only)
  activeTab,         \* useState('history')
  pendingDict,       \* searchDictionary calls awaiting their response
  isRecording,       \* useState(false) : voice input
  isTranscribing,    \* useState(false)
  pendingMedia,      \* getUserMedia calls of toggleRecording awaiting the user
  liveStreams,       \* microphone streams of toggleRecording not yet stopped
  pendingTranscribe, \* transcribeAudio calls awaiting their response
  cardIsRecording,   \* TranslationCard useState(false) : practice recording
  isEvaluating,      \* TranslationCard useState(false)
  practiceResult,    \* TranslationCard useState<PronunciationResult | null>(null)
  practiceError,     \* TranslationCard useState<string | null>(null)
  cardPendingMedia,  \* getUserMedia calls of the mounted card awaiting the user
  stalePendingMedia, \* getUserMedia calls of cards since unmounted
  cardLiveStreams,   \* microphone streams of a card not yet stopped
  pendingEvaluate,   \* evaluatePronunciation calls of the mounted card
  example,           \* VocabularyItem useState(item.exampleSentence), <<>> when none
  isLoading,         \* VocabularyItem useState(false)
  hasFetched,        \* VocabularyItem useRef(false)
  shownItem,         \* the item the effects of VocabularyItem last ran for
  pendingExample,    \* generateExampleSentence calls of the mounted item
  exampleCalls,      \* observer: generateExampleSentence calls made, by (word, meaning)
  pendingSpeech,     \* playJapaneseAudio requests awaiting the backend
  audioContexts,     \* AudioContexts created by playJapaneseAudio
  speechThrew,       \* the playJapaneseAudio call that settled last rejected
  speechCalls        \* observer: the texts playJapaneseAudio was called with

\* the dictionary flow, the voice input and the TranslationCard
dictVars == <<dictQuery, dictEntry, activeTab, pendingDict>>
micVars == <<isRecording, isTranscribing, pendingMedia, liveStreams, pendingTranscribe>>
speechVars == <<pendingSpeech, audioContexts, speechThrew, speechCalls>>
vocabVars == <<example, isLoading, hasFetched, shownItem, pendingExample, exampleCalls>>
cardVars == <<cardIsRecording, isEvaluating, practiceResult, practiceError,
              cardPendingMedia, stalePendingMedia, cardLiveStreams, pendingEvaluate,
              vocabVars>>

vars == <<app, inputText, appState, result, errorMsg, isQuotaExceeded, history,
          savedItems, localStorage, now, pendingTranslate, pendingRead,
          alertShown, recorded, dictVars, micVars, cardVars, speechVars>>

-----------------------------------------------------------------------------
(* Bounds of the model *)

\* Date.now() takes the readings 0..MaxNow
MaxNow == 1
\* at most this many translate calls (and file reads) are awaited at once
MaxInFlight == 2
\* at most this many file reads are awaiting onload
MaxReads == 1
\* at most this many microphone streams are open at once
MaxStreams == 2
\* the observer counts the calls for one (word, meaning) up to this many
MaxCalls == 2
\* at most this many AudioContexts are created
MaxContexts == 2
\* the saved-items collection is explored up to this length
MaxSaved == 2
\* number of distinct phrases the user works through in SpecCap
MaxPhrases == 11

(* Program constants *)

\* .slice(0, 10) in App.tsx
HISTORY_CAP == 10
\* .slice(0, 6) in saveToHistory
EARLIER_HISTORY_CAP == 6

-----------------------------------------------------------------------------
(* Strings *)

Lowers == <<"a", "b", "c", "d", "e", "f", "g", "h", "i", "j", "k", "l", "m">>
Uppers == <<"A", "B", "C", "D", "E", "F", "G", "H", "I", "J", "K", "L", "M">>

\* String.prototype.toLowerCase, one character
lowerChar(c) ==
  IF \E i \in 1..Len(Uppers) : Uppers[i] = c
  THEN Lowers[CHOOSE i \in 1..Len(Uppers) : Uppers[i] = c]
  ELSE c

\* String.prototype.toLowerCase
toLowerCase(s) == [i \in 1..Len(s) |-> lowerChar(s[i])]

RECURSIVE trimStart(_)
trimStart(s) ==
  IF s # <<>> /\ Head(s) = " " THEN trimStart(Tail(s)) ELSE s

RECURSIVE trimEnd(_)
trimEnd(s) ==
  IF s # <<>> /\ s[Len(s)] = " " THEN trimEnd(SubSeq(s, 1, Len(s) - 1)) ELSE s

\* String.prototype.trim
trim(s) == trimEnd(trimStart(s))

\* Array.prototype.slice(0, n)
slice(s, n) == SubSeq(s, 1, IF Len(s) < n THEN Len(s) ELSE n)

-----------------------------------------------------------------------------
(* Values *)

NULL == [null |-> TRUE]

IDLE == "IDLE"
TRANSLATING == "TRANSLATING"
SUCCESS == "SUCCESS"
ERROR == "ERROR"
DICTIONARY_LOADING == "DICTIONARY_LOADING"

\* Date.now().toString() and `saved-${Date.now()}`
idOf(prefix, n) == [prefix |-> prefix, digits |-> n]

\* a HistoryItem
HistoryItem(id, originalText, res, timestamp) ==
  [id |-> id, originalText |-> originalText, result |-> res, timestamp |-> timestamp]

\* JSON.stringify of an array, JSON.parse of a document
JSONstringify(arr) == [text |-> "json", value |-> [type |-> "array", elems |-> arr]]
JSONparse(doc) ==
  IF doc.text = "json" THEN [threw |-> FALSE, value |-> doc.value]
  ELSE [threw |-> TRUE]
isArray(v) == v.type = "array"

\* a setItem that writes nothing
setItem_Dropped(ls, key, doc) == ls

\* localStorage.setItem / removeItem
setItem(ls, key, doc) == [ls EXCEPT ![key] = doc]
removeItem(ls, key) == [ls EXCEPT ![key] = NULL]

\* the load effect: JSON.parse of a slot when the slot is set
loadSlot(ls, key) ==
  IF ls[key] = NULL THEN <<>> ELSE JSONparse(ls[key]).value.elems


-----------------------------------------------------------------------------
(* The history collection *)

\* toLowerCase(trim(t)): the normalized form of a text
normalize(t) == toLowerCase(trim(t))

\* recordHistory with the slice one item too long
recordHistory_SliceOffByOne(prev, text, data, n) ==
  LET newItem == HistoryItem(idOf("", n), text, data, n)
  IN slice(<<newItem>> \o SelectSeq(prev, LAMBDA x : x.originalText # text),
           HISTORY_CAP + 1)

\* App.tsx handleTranslate: newItem and the setHistory updater
recordHistory(prev, text, data, n) ==
  LET newItem == HistoryItem(idOf("", n), text, data, n)
  IN slice(<<newItem>> \o SelectSeq(prev, LAMBDA x : x.originalText # text),
           HISTORY_CAP)

\* part_002 saveToHistory: newItem and the setHistory updater
saveToHistory(prev, originalText, translationResult, n) ==
  LET newItem == HistoryItem(idOf("", n), trim(originalText), translationResult, n)
      filtered == SelectSeq(prev, LAMBDA item :
                    toLowerCase(item.originalText) # toLowerCase(trim(originalText)))
  IN slice(<<newItem>> \o filtered, EARLIER_HISTORY_CAP)

(* The saved-items collection *)

\* onToggleSave with the removal left out
toggleSaveUpdated_NoRemove(prev, text, res, n) ==
  LET isS == \E i \in 1..Len(prev) : prev[i].result.japanese = res.japanese
  IN IF isS
     THEN prev
     ELSE <<HistoryItem(idOf("", n), text, res, n)>> \o prev

\* App.tsx onToggleSave: the setSavedItems updater
toggleSaveUpdated(prev, text, res, n) ==
  LET isS == \E i \in 1..Len(prev) : prev[i].result.japanese = res.japanese
  IN IF isS
     THEN SelectSeq(prev, LAMBDA x : x.result.japanese # res.japanese)
     ELSE <<HistoryItem(idOf("", n), text, res, n)>> \o prev

\* part_002 isCurrentResultSaved / isAlreadySaved
isAlreadySaved(items, text, res) ==
  \E i \in 1..Len(items) :
     /\ toLowerCase(items[i].originalText) = toLowerCase(trim(text))
     /\ items[i].result.japanese = res.japanese

\* part_002 toggleSavedItem: the updated collection
toggleSavedItemUpdated(items, text, res, n) ==
  LET currentText == trim(text)
  IN IF isAlreadySaved(items, text, res)
     THEN SelectSeq(items, LAMBDA item :
            ~(/\ toLowerCase(item.originalText) = toLowerCase(currentText)
              /\ item.result.japanese = res.japanese))
     ELSE <<HistoryItem(idOf("saved-", n), currentText, res, n)>> \o items

\* part_002 handleDeleteSaved: the updated collection
deleteSaved(items, id) == SelectSeq(items, LAMBDA item : item.id # id)

(* Import *)

\* Map.prototype.set on a Map kept as its entries in insertion order
mapSet(m, k, v) ==
  IF \E i \in 1..Len(m) : m[i].key = k
  THEN [i \in 1..Len(m) |-> IF m[i].key = k THEN [key |-> k, value |-> v] ELSE m[i]]
  ELSE Append(m, [key |-> k, value |-> v])

\* new Map(prev.map(item => [item.result.japanese, item]))
RECURSIVE newMap(_)
newMap(items) ==
  IF items = <<>> THEN <<>>
  ELSE LET last == items[Len(items)]
       IN mapSet(newMap(SubSeq(items, 1, Len(items) - 1)), last.result.japanese, last)

\* item.result && item.result.japanese
hasJapanese(item) ==
  /\ "result" \in DOMAIN item
  /\ "japanese" \in DOMAIN item.result
  /\ item.result.japanese # ""

\* imported.forEach(item => { if (...) existingMap.set(item.result.japanese, item) })
RECURSIVE forEachSet(_, _)
forEachSet(m, imported) ==
  IF imported = <<>> THEN m
  ELSE LET item == Head(imported)
       IN forEachSet(IF hasJapanese(item) THEN mapSet(m, item.result.japanese, item) ELSE m,
                     Tail(imported))

\* part_002 handleImportSaved: the setSavedItems updater
mergeImported(prev, imported) ==
  LET existingMap == forEachSet(newMap(prev), imported)
  IN [i \in 1..Len(existingMap) |-> existingMap[i].value]

\* part_002 handleExportSaved: the downloaded document, NULL when nothing is exported
handleExportSaved(items) ==
  IF Len(items) = 0 THEN NULL ELSE JSONstringify(items)

-----------------------------------------------------------------------------
(* Inputs *)

\* a phrase, the same phrase capitalised, and with a leading blank
Phrase(i) == <<Lowers[i]>>
Capital(i) == <<Uppers[i]>>
Padded(i) == <<" ", Lowers[i]>>

R(j, m) == [japanese |-> j, englishMeaning |-> m]

\* Error.message of a rejected translateTextToJapanese call
ErrorMessages == {"Empty response", "got status: 429", "exceeded your current quota"}
includes429(e) == e = "got status: 429"
includesQuota(e) == e = "exceeded your current quota"

QuotaMsg == "API Quota Exceeded. Please wait a moment or use your own API key."
FailedMsg == "Translation failed. Please try again."
EarlierFailedMsg == "Unable to translate at this moment. Please try again."
ImportOkMsg == "Import successful!"
ImportFailedMsg == "Failed to parse file. Please ensure it is a valid NihonGo Master export."
DictQuotaMsg == "Dictionary quota exceeded. Please try later."
DictNotFoundMsg == "Word not found in dictionary."
TranscribeQuotaMsg == "Transcription quota exceeded."
EarlierTranscribeFailedMsg == "Failed to transcribe audio. Please try again."
MicDeniedMsg == "Microphone access denied."
EarlierMicDeniedMsg == "Microphone access denied or not available."
EvalFailedMsg == "Failed to evaluate. Please try again."
CardMicDeniedMsg == "Microphone access denied. Please check your browser settings."

-----------------------------------------------------------------------------
(* The AI service. A response of generateContent is a text (a document that *)
(* parses or not), no text, or a rejection with an error message.           *)

TextResponse(doc) == [kind |-> "text", doc |-> doc]
EmptyResponse == [kind |-> "empty"]
Rejection(m) == [kind |-> "rejected", message |-> m]

\* the message of the SyntaxError JSON.parse throws
SyntaxErrorMsg == "Unexpected token < in JSON at position 0"

\* translateTextToJapanese of the current service: the value it resolves
\* with, or the message of the Error it throws
translateTextToJapanese(response) ==
  IF response.kind = "rejected"
  THEN [threw |-> TRUE,
        message |-> IF response.message # "" THEN response.message ELSE "Unknown error"]
  ELSE IF response.kind = "text"
  THEN IF JSONparse(response.doc).threw
       THEN [threw |-> TRUE, message |-> SyntaxErrorMsg]
       ELSE [threw |-> FALSE, value |-> JSONparse(response.doc).value]
  ELSE [threw |-> TRUE, message |-> "Empty response"]

\* translateTextToJapanese of the earlier service: the error is rethrown as is
translateTextToJapaneseEarlier(response) ==
  IF response.kind = "rejected"
  THEN [threw |-> TRUE, message |-> response.message]
  ELSE IF response.kind = "text"
  THEN IF JSONparse(response.doc).threw
       THEN [threw |-> TRUE, message |-> SyntaxErrorMsg]
       ELSE [threw |-> FALSE, value |-> JSONparse(response.doc).value]
  ELSE [threw |-> TRUE, message |-> "No response text"]

\* evaluatePronunciation of the current service: JSON.parse(response.text || "{}")
evaluatePronunciation(response) ==
  IF response.kind = "rejected"
  THEN [threw |-> TRUE,
        message |-> IF response.message # "" THEN response.message ELSE "Evaluation error"]
  ELSE IF response.kind = "text"
  THEN IF JSONparse(response.doc).threw
       THEN [threw |-> TRUE, message |-> SyntaxErrorMsg]
       ELSE [threw |-> FALSE, value |-> JSONparse(response.doc).value]
  ELSE [threw |-> FALSE, value |-> [type |-> "object"]]

\* evaluatePronunciation of the earlier service: no text is an error
evaluatePronunciationEarlier(response) ==
  IF response.kind = "rejected"
  THEN [threw |-> TRUE, message |-> response.message]
  ELSE IF response.kind = "text"
  THEN IF JSONparse(response.doc).threw
       THEN [threw |-> TRUE, message |-> SyntaxErrorMsg]
       ELSE [threw |-> FALSE, value |-> JSONparse(response.doc).value]
  ELSE [threw |-> TRUE, message |-> "No evaluation response"]

\* transcribeAudio of the current service: response.text?.trim() || ""
transcribeAudio(response) ==
  IF response.kind = "rejected"
  THEN [threw |-> TRUE,
        message |-> IF response.message # "" THEN response.message
                    ELSE "Transcription error"]
  ELSE IF response.kind = "text"
  THEN [threw |-> FALSE, value |-> trim(response.doc)]
  ELSE [threw |-> FALSE, value |-> <<>>]

\* transcribeAudio of the earlier service: the error is rethrown as it is
transcribeAudioEarlier(response) ==
  IF response.kind = "rejected"
  THEN [threw |-> TRUE, message |-> response.message]
  ELSE IF response.kind = "text"
  THEN [threw |-> FALSE, value |-> trim(response.doc)]
  ELSE [threw |-> FALSE, value |-> <<>>]

\* a variant that replaces the input text by the transcript
appendTranscript_Replace(prev, text) == text

\* the updater of onstop: prev => prev + (prev ? ' ' : '') + text
appendTranscript(prev, text) ==
  prev \o (IF prev # <<>> THEN <<" ">> ELSE <<>>) \o text

\* App.tsx handleTranslate catch: what it surfaces for an error message
classifyFailure(e) ==
  IF includes429(e) \/ includesQuota(e)
  THEN [quota |-> TRUE, msg |-> QuotaMsg]
  ELSE [quota |-> FALSE, msg |-> FailedMsg]

-----------------------------------------------------------------------------
(* The TranslationCard is mounted while result && appState === SUCCESS. Its  *)
(* state is lost when it unmounts: responses to its pending calls then set  *)
(* nothing, but a getUserMedia call it left pending still opens a stream.   *)

CardMounted == result # NULL /\ appState = SUCCESS

\* the card's state follows the App state of the next render
CardFollows ==
  IF result' # NULL /\ appState' = SUCCESS
  THEN UNCHANGED cardVars
  ELSE /\ cardIsRecording' = FALSE
       /\ isEvaluating' = FALSE
       /\ practiceResult' = NULL
       /\ practiceError' = NULL
       /\ cardPendingMedia' = 0
       /\ stalePendingMedia' = stalePendingMedia + cardPendingMedia
       /\ pendingEvaluate' = 0
       /\ UNCHANGED cardLiveStreams
       /\ example' = <<>>
       /\ isLoading' = FALSE
       /\ hasFetched' = FALSE
       /\ shownItem' = NULL
       /\ pendingExample' = 0
       /\ UNCHANGED exampleCalls

-----------------------------------------------------------------------------
(* Actions. Every handler runs only while no modal alert() is on screen. *)

\* textarea onChange: setInputText(e.target.value); the earlier App disables
\* the textarea while isTranscribing
setInputText(t) ==
  /\ alertShown = ""
  /\ app = "EarlierApp" => ~isTranscribing
  /\ inputText' = t
  /\ UNCHANGED <<app, appState, result, errorMsg, isQuotaExceeded, history, savedItems,
                 localStorage, now, pendingTranslate, pendingRead, alertShown, recorded>>
  /\ UNCHANGED <<dictVars, micVars, speechVars>>
  /\ CardFollows

\* App.tsx handleTranslate up to the await; the button is disabled while
\* TRANSLATING or when the trimmed input is empty
handleTranslate ==
  /\ app = "App" /\ alertShown = ""
  /\ appState # TRANSLATING
  /\ trim(inputText) # <<>>
  /\ BagCardinality(pendingTranslate) < MaxInFlight
  /\ appState' = TRANSLATING
  /\ errorMsg' = ""
  /\ isQuotaExceeded' = FALSE
  /\ pendingTranslate' = pendingTranslate (+) SetToBag({inputText})
  /\ UNCHANGED <<app, inputText, result, history, savedItems, localStorage, now,
                 pendingRead, alertShown, recorded>>
  /\ UNCHANGED <<dictVars, micVars, speechVars>>
  /\ CardFollows

\* App.tsx handleTranslate after the await resolved with data
handleTranslate_then(text, data) ==
  /\ app = "App" /\ alertShown = ""
  /\ BagIn(text, pendingTranslate)
  /\ pendingTranslate' = pendingTranslate (-) SetToBag({text})
  /\ result' = data
  /\ appState' = SUCCESS
  /\ history' = recordHistory(history, text, data, now)
  /\ localStorage' = setItem(localStorage, "translationHistory", JSONstringify(history'))
  /\ recorded' = <<normalize(text)>> \o SelectSeq(recorded, LAMBDA x : x # normalize(text))
  /\ UNCHANGED <<app, inputText, errorMsg, isQuotaExceeded, savedItems, now,
                 pendingRead, alertShown>>
  /\ UNCHANGED <<dictVars, micVars, speechVars>>
  /\ CardFollows

\* App.tsx handleTranslate: the catch branch
handleTranslate_catch(text, e) ==
  /\ app = "App" /\ alertShown = ""
  /\ BagIn(text, pendingTranslate)
  /\ pendingTranslate' = pendingTranslate (-) SetToBag({text})
  /\ appState' = ERROR
  /\ isQuotaExceeded' = (classifyFailure(e).quota \/ isQuotaExceeded)
  /\ errorMsg' = classifyFailure(e).msg
  /\ UNCHANGED <<app, inputText, result, history, savedItems, localStorage, now,
                 pendingRead, alertShown, recorded>>
  /\ UNCHANGED <<dictVars, micVars, speechVars>>
  /\ CardFollows

\* part_002 handleTranslate up to the await
handleTranslateEarlier ==
  /\ app = "EarlierApp" /\ alertShown = ""
  /\ appState # TRANSLATING
  /\ ~isRecording /\ ~isTranscribing
  /\ trim(inputText) # <<>>
  /\ BagCardinality(pendingTranslate) < MaxInFlight
  /\ appState' = TRANSLATING
  /\ errorMsg' = ""
  /\ result' = NULL
  /\ pendingTranslate' = pendingTranslate (+) SetToBag({inputText})
  /\ UNCHANGED <<app, inputText, isQuotaExceeded, history, savedItems, localStorage, now,
                 pendingRead, alertShown, recorded>>
  /\ UNCHANGED <<dictVars, micVars, speechVars>>
  /\ CardFollows

\* part_002 handleTranslate after the await resolved with data
handleTranslateEarlier_then(text, data) ==
  /\ app = "EarlierApp" /\ alertShown = ""
  /\ BagIn(text, pendingTranslate)
  /\ pendingTranslate' = pendingTranslate (-) SetToBag({text})
  /\ result' = data
  /\ appState' = SUCCESS
  /\ history' = saveToHistory(history, text, data, now)
  /\ localStorage' = setItem(localStorage, "translationHistory", JSONstringify(history'))
  /\ recorded' = <<normalize(text)>> \o SelectSeq(recorded, LAMBDA x : x # normalize(text))
  /\ UNCHANGED <<app, inputText, errorMsg, isQuotaExceeded, savedItems, now,
                 pendingRead, alertShown>>
  /\ UNCHANGED <<dictVars, micVars, speechVars>>
  /\ CardFollows

\* part_002 handleTranslate: the catch branch
handleTranslateEarlier_catch(text) ==
  /\ app = "EarlierApp" /\ alertShown = ""
  /\ BagIn(text, pendingTranslate)
  /\ pendingTranslate' = pendingTranslate (-) SetToBag({text})
  /\ appState' = ERROR
  /\ errorMsg' = EarlierFailedMsg
  /\ UNCHANGED <<app, inputText, result, isQuotaExceeded, history, savedItems,
                 localStorage, now, pendingRead, alertShown, recorded>>
  /\ UNCHANGED <<dictVars, micVars, speechVars>>
  /\ CardFollows

\* App.tsx HistoryList onSelect and part_002 handleHistorySelect, on an item of
\* the recent or of the saved list
handleHistorySelect(item) ==
  /\ alertShown = ""
  /\ inputText' = item.originalText
  /\ result' = item.result
  /\ appState' = SUCCESS
  /\ UNCHANGED <<app, errorMsg, isQuotaExceeded, history, savedItems, localStorage, now,
                 pendingTranslate, pendingRead, alertShown, recorded>>
  /\ UNCHANGED <<dictVars, micVars, speechVars>>
  /\ CardFollows

\* part_002 handleClearHistory; the Clear button shows on a non-empty list and
\* window.confirm may be declined
handleClearHistory(confirmed) ==
  /\ app = "EarlierApp" /\ alertShown = ""
  /\ Len(history) > 0
  /\ IF confirmed
     THEN /\ history' = <<>>
          /\ localStorage' = removeItem(localStorage, "translationHistory")
          /\ recorded' = <<>>
     ELSE UNCHANGED <<history, localStorage, recorded>>
  /\ UNCHANGED <<app, inputText, appState, result, errorMsg, isQuotaExceeded, savedItems,
                 now, pendingTranslate, pendingRead, alertShown>>
  /\ UNCHANGED <<dictVars, micVars, speechVars>>
  /\ CardFollows

\* App.tsx onToggleSave; the card shows when result && appState === SUCCESS
onToggleSave ==
  /\ app = "App" /\ alertShown = ""
  /\ result # NULL /\ appState = SUCCESS
  /\ savedItems' = toggleSaveUpdated(savedItems, inputText, result, now)
  /\ Len(savedItems') <= MaxSaved
  /\ localStorage' = setItem(localStorage, "savedTranslations", JSONstringify(savedItems'))
  /\ UNCHANGED <<app, inputText, appState, result, errorMsg, isQuotaExceeded, history,
                 now, pendingTranslate, pendingRead, alertShown, recorded>>
  /\ UNCHANGED <<dictVars, micVars, speechVars>>
  /\ CardFollows

\* part_002 toggleSavedItem
toggleSavedItem ==
  /\ app = "EarlierApp" /\ alertShown = ""
  /\ result # NULL /\ appState = SUCCESS
  /\ savedItems' = toggleSavedItemUpdated(savedItems, inputText, result, now)
  /\ Len(savedItems') <= MaxSaved
  /\ localStorage' = setItem(localStorage, "savedTranslations", JSONstringify(savedItems'))
  /\ UNCHANGED <<app, inputText, appState, result, errorMsg, isQuotaExceeded, history,
                 now, pendingTranslate, pendingRead, alertShown, recorded>>
  /\ UNCHANGED <<dictVars, micVars, speechVars>>
  /\ CardFollows

\* part_002 handleDeleteSaved, from the delete button of a saved item
handleDeleteSaved(id) ==
  /\ app = "EarlierApp" /\ alertShown = ""
  /\ savedItems' = deleteSaved(savedItems, id)
  /\ localStorage' = setItem(localStorage, "savedTranslations", JSONstringify(savedItems'))
  /\ UNCHANGED <<app, inputText, appState, result, errorMsg, isQuotaExceeded, history,
                 now, pendingTranslate, pendingRead, alertShown, recorded>>
  /\ UNCHANGED <<dictVars, micVars, speechVars>>
  /\ CardFollows

\* part_002 handleImportSaved: the user picks a file and reader.readAsText starts
handleImportSaved(file) ==
  /\ app = "EarlierApp" /\ alertShown = ""
  /\ BagCardinality(pendingRead) < MaxReads
  /\ pendingRead' = pendingRead (+) SetToBag({file})
  /\ UNCHANGED <<app, inputText, appState, result, errorMsg, isQuotaExceeded, history,
                 savedItems, localStorage, now, pendingTranslate, alertShown, recorded>>
  /\ UNCHANGED <<dictVars, micVars, speechVars>>
  /\ CardFollows

\* part_002 handleImportSaved: reader.onload
readerOnload(file) ==
  /\ app = "EarlierApp" /\ alertShown = ""
  /\ BagIn(file, pendingRead)
  /\ pendingRead' = pendingRead (-) SetToBag({file})
  /\ LET imported == JSONparse(file)
     IN IF imported.threw
        THEN /\ alertShown' = ImportFailedMsg
             /\ UNCHANGED <<savedItems, localStorage>>
        ELSE IF isArray(imported.value)
        THEN /\ savedItems' = mergeImported(savedItems, imported.value.elems)
             /\ localStorage' = setItem(localStorage, "savedTranslations",
                                        JSONstringify(savedItems'))
             /\ alertShown' = ImportOkMsg
        ELSE UNCHANGED <<savedItems, localStorage, alertShown>>
  /\ UNCHANGED <<app, inputText, appState, result, errorMsg, isQuotaExceeded, history,
                 now, pendingTranslate, recorded>>
  /\ UNCHANGED <<dictVars, micVars, speechVars>>
  /\ CardFollows

\* the user dismisses the alert()
dismissAlert ==
  /\ alertShown # ""
  /\ alertShown' = ""
  /\ UNCHANGED <<app, inputText, appState, result, errorMsg, isQuotaExceeded, history,
                 savedItems, localStorage, now, pendingTranslate, pendingRead, recorded>>
  /\ UNCHANGED <<dictVars, micVars, speechVars>>
  /\ CardFollows

\* the clock advances
Tick ==
  /\ now < MaxNow
  /\ now' = now + 1
  /\ UNCHANGED <<app, inputText, appState, result, errorMsg, isQuotaExceeded, history,
                 savedItems, localStorage, pendingTranslate, pendingRead, alertShown,
                 recorded>>
  /\ UNCHANGED <<dictVars, micVars, speechVars>>
  /\ CardFollows

\* the history / saved tab buttons, and onClose of the dictionary entry
setActiveTab(t) ==
  /\ alertShown = ""
  /\ activeTab' = t
  /\ UNCHANGED <<app, inputText, appState, result, errorMsg, isQuotaExceeded, history,
                 savedItems, localStorage, now, pendingTranslate, pendingRead, alertShown,
                 recorded, dictQuery, dictEntry, pendingDict>>
  /\ UNCHANGED <<micVars, speechVars>>
  /\ CardFollows

\* dictionary search box onChange: setDictQuery(e.target.value)
setDictQuery(q) ==
  /\ app = "App" /\ alertShown = ""
  /\ dictQuery' = q
  /\ UNCHANGED <<app, inputText, appState, result, errorMsg, isQuotaExceeded, history,
                 savedItems, localStorage, now, pendingTranslate, pendingRead, alertShown,
                 recorded, dictEntry, activeTab, pendingDict>>
  /\ UNCHANGED <<micVars, speechVars>>
  /\ CardFollows

\* App.tsx handleDictSearch up to the await, from the search button or Enter
handleDictSearch ==
  /\ app = "App" /\ alertShown = ""
  /\ trim(dictQuery) # <<>>
  /\ BagCardinality(pendingDict) < MaxInFlight
  /\ appState' = DICTIONARY_LOADING
  /\ activeTab' = "dictionary"
  /\ dictEntry' = NULL
  /\ isQuotaExceeded' = FALSE
  /\ pendingDict' = pendingDict (+) SetToBag({dictQuery})
  /\ UNCHANGED <<app, inputText, result, errorMsg, history, savedItems, localStorage, now,
                 pendingTranslate, pendingRead, alertShown, recorded, dictQuery>>
  /\ UNCHANGED <<micVars, speechVars>>
  /\ CardFollows

\* App.tsx handleDictSearch after the await resolved with entry
handleDictSearch_then(q, entry) ==
  /\ app = "App" /\ alertShown = ""
  /\ BagIn(q, pendingDict)
  /\ pendingDict' = pendingDict (-) SetToBag({q})
  /\ dictEntry' = entry
  /\ appState' = IDLE
  /\ UNCHANGED <<app, inputText, result, errorMsg, isQuotaExceeded, history, savedItems,
                 localStorage, now, pendingTranslate, pendingRead, alertShown, recorded,
                 dictQuery, activeTab>>
  /\ UNCHANGED <<micVars, speechVars>>
  /\ CardFollows

\* App.tsx handleDictSearch: the catch
handleDictSearch_catch(q, e) ==
  /\ app = "App" /\ alertShown = ""
  /\ BagIn(q, pendingDict)
  /\ pendingDict' = pendingDict (-) SetToBag({q})
  /\ appState' = ERROR
  /\ IF includes429(e) \/ includesQuota(e)
     THEN isQuotaExceeded' = TRUE /\ errorMsg' = DictQuotaMsg
     ELSE isQuotaExceeded' = isQuotaExceeded /\ errorMsg' = DictNotFoundMsg
  /\ UNCHANGED <<app, inputText, result, history, savedItems, localStorage, now,
                 pendingTranslate, pendingRead, alertShown, recorded, dictQuery, dictEntry,
                 activeTab>>
  /\ UNCHANGED <<micVars, speechVars>>
  /\ CardFollows

\* App.tsx handleOpenKeySelector after window.aistudio.openSelectKey() resolved
handleOpenKeySelector ==
  /\ app = "App" /\ alertShown = ""
  /\ isQuotaExceeded' = FALSE
  /\ errorMsg' = ""
  /\ UNCHANGED <<app, inputText, appState, result, history, savedItems, localStorage, now,
                 pendingTranslate, pendingRead, alertShown, recorded>>
  /\ UNCHANGED <<dictVars, micVars, speechVars>>
  /\ CardFollows

\* App.tsx handleTranslate: the awaited service call settles on a response
translateResponds(text, response) ==
  IF translateTextToJapanese(response).threw
  THEN handleTranslate_catch(text, translateTextToJapanese(response).message)
  ELSE handleTranslate_then(text, translateTextToJapanese(response).value)

\* part_002 handleTranslate: the awaited service call settles on a response
translateRespondsEarlier(text, response) ==
  IF translateTextToJapaneseEarlier(response).threw
  THEN handleTranslateEarlier_catch(text)
  ELSE handleTranslateEarlier_then(text, translateTextToJapaneseEarlier(response).value)

(* Voice input of the App *)

\* toggleRecording while not recording, up to the await of getUserMedia; the
\* earlier App disables the button while isTranscribing
toggleRecording_start ==
  /\ alertShown = ""
  /\ ~isRecording
  /\ app = "EarlierApp" => ~isTranscribing
  /\ pendingMedia < MaxInFlight
  /\ pendingMedia' = pendingMedia + 1
  /\ UNCHANGED <<inputText, errorMsg, alertShown>>
  /\ UNCHANGED <<isRecording, isTranscribing, liveStreams, pendingTranscribe>>
  /\ UNCHANGED <<app, appState, result, isQuotaExceeded, history, savedItems,
                 localStorage, now, pendingTranslate, pendingRead, recorded>>
  /\ UNCHANGED <<dictVars, speechVars>>
  /\ CardFollows

\* getUserMedia resolves: the recorder starts
toggleRecording_granted ==
  /\ alertShown = ""
  /\ pendingMedia > 0
  /\ liveStreams < MaxStreams
  /\ pendingMedia' = pendingMedia - 1
  /\ liveStreams' = liveStreams + 1
  /\ isRecording' = TRUE
  /\ UNCHANGED <<inputText, errorMsg, alertShown>>
  /\ UNCHANGED <<isTranscribing, pendingTranscribe>>
  /\ UNCHANGED <<app, appState, result, isQuotaExceeded, history, savedItems,
                 localStorage, now, pendingTranslate, pendingRead, recorded>>
  /\ UNCHANGED <<dictVars, speechVars>>
  /\ CardFollows

\* getUserMedia rejects: alert(...)
toggleRecording_denied ==
  /\ alertShown = ""
  /\ pendingMedia > 0
  /\ pendingMedia' = pendingMedia - 1
  /\ alertShown' = IF app = "App" THEN MicDeniedMsg ELSE EarlierMicDeniedMsg
  /\ UNCHANGED <<inputText, errorMsg>>
  /\ UNCHANGED <<isRecording, isTranscribing, liveStreams, pendingTranscribe>>
  /\ UNCHANGED <<app, appState, result, isQuotaExceeded, history, savedItems,
                 localStorage, now, pendingTranslate, pendingRead, recorded>>
  /\ UNCHANGED <<dictVars, speechVars>>
  /\ CardFollows

\* toggleRecording while recording, and the onstop the recorder fires: the
\* tracks stop and the transcription is requested
toggleRecording_stop ==
  /\ alertShown = ""
  /\ isRecording
  /\ app = "EarlierApp" => ~isTranscribing
  /\ pendingTranscribe < MaxInFlight
  /\ isRecording' = FALSE
  /\ liveStreams' = liveStreams - 1
  /\ isTranscribing' = TRUE
  /\ pendingTranscribe' = pendingTranscribe + 1
  /\ UNCHANGED <<inputText, errorMsg, alertShown>>
  /\ UNCHANGED pendingMedia
  /\ UNCHANGED <<app, appState, result, isQuotaExceeded, history, savedItems,
                 localStorage, now, pendingTranslate, pendingRead, recorded>>
  /\ UNCHANGED <<dictVars, speechVars>>
  /\ CardFollows

\* onstop after the await: transcribeAudio settles on a response
transcribeResponds(response) ==
  /\ alertShown = ""
  /\ pendingTranscribe > 0
  /\ pendingTranscribe' = pendingTranscribe - 1
  /\ LET settled == IF app = "App" THEN transcribeAudio(response)
                    ELSE transcribeAudioEarlier(response)
     IN IF settled.threw
        THEN /\ errorMsg' = IF app = "EarlierApp" THEN EarlierTranscribeFailedMsg
                            ELSE IF includes429(settled.message) THEN TranscribeQuotaMsg
                            ELSE errorMsg
             /\ UNCHANGED inputText
        ELSE /\ inputText' = IF settled.value # <<>>
                             THEN appendTranscript(inputText, settled.value)
                             ELSE inputText
             /\ UNCHANGED errorMsg
  /\ isTranscribing' = FALSE
  /\ UNCHANGED alertShown
  /\ UNCHANGED <<isRecording, pendingMedia, liveStreams>>
  /\ UNCHANGED <<app, appState, result, isQuotaExceeded, history, savedItems,
                 localStorage, now, pendingTranslate, pendingRead, recorded>>
  /\ UNCHANGED <<dictVars, speechVars>>
  /\ CardFollows

(* The practice recorder of the TranslationCard *)

\* togglePracticeRecording while not recording, up to the await of getUserMedia;
\* the button is disabled while isEvaluating
togglePracticeRecording_start ==
  /\ CardMounted /\ alertShown = ""
  /\ ~cardIsRecording /\ ~isEvaluating
  /\ cardPendingMedia + stalePendingMedia < MaxInFlight
  /\ practiceError' = NULL
  /\ cardPendingMedia' = cardPendingMedia + 1
  /\ UNCHANGED <<app, inputText, appState, result, errorMsg, isQuotaExceeded, history,
                 savedItems, localStorage, now, pendingTranslate, pendingRead, alertShown,
                 recorded>>
  /\ UNCHANGED <<dictVars, micVars, vocabVars, speechVars>>
  /\ UNCHANGED <<cardIsRecording, isEvaluating, practiceResult, stalePendingMedia,
                 cardLiveStreams, pendingEvaluate>>

\* getUserMedia of the mounted card resolves: the recorder starts
togglePracticeRecording_granted ==
  /\ alertShown = ""
  /\ cardPendingMedia > 0
  /\ cardLiveStreams < MaxStreams
  /\ cardPendingMedia' = cardPendingMedia - 1
  /\ cardLiveStreams' = cardLiveStreams + 1
  /\ cardIsRecording' = TRUE
  /\ UNCHANGED <<app, inputText, appState, result, errorMsg, isQuotaExceeded, history,
                 savedItems, localStorage, now, pendingTranslate, pendingRead, alertShown,
                 recorded>>
  /\ UNCHANGED <<dictVars, micVars, vocabVars, speechVars>>
  /\ UNCHANGED <<isEvaluating, practiceResult, practiceError, stalePendingMedia,
                 pendingEvaluate>>

\* getUserMedia of the mounted card rejects
togglePracticeRecording_denied ==
  /\ alertShown = ""
  /\ cardPendingMedia > 0
  /\ cardPendingMedia' = cardPendingMedia - 1
  /\ practiceError' = CardMicDeniedMsg
  /\ UNCHANGED <<app, inputText, appState, result, errorMsg, isQuotaExceeded, history,
                 savedItems, localStorage, now, pendingTranslate, pendingRead, alertShown,
                 recorded>>
  /\ UNCHANGED <<dictVars, micVars, vocabVars, speechVars>>
  /\ UNCHANGED <<cardIsRecording, isEvaluating, practiceResult, stalePendingMedia,
                 cardLiveStreams, pendingEvaluate>>

\* getUserMedia of an unmounted card settles: a granted stream starts a
\* recorder nothing will stop, and no state is set
togglePracticeRecording_stale(granted) ==
  /\ alertShown = ""
  /\ stalePendingMedia > 0
  /\ granted => cardLiveStreams < MaxStreams
  /\ stalePendingMedia' = stalePendingMedia - 1
  /\ cardLiveStreams' = IF granted THEN cardLiveStreams + 1 ELSE cardLiveStreams
  /\ UNCHANGED <<app, inputText, appState, result, errorMsg, isQuotaExceeded, history,
                 savedItems, localStorage, now, pendingTranslate, pendingRead, alertShown,
                 recorded>>
  /\ UNCHANGED <<dictVars, micVars, vocabVars, speechVars>>
  /\ UNCHANGED <<cardIsRecording, isEvaluating, practiceResult, practiceError,
                 cardPendingMedia, pendingEvaluate>>

\* togglePracticeRecording while recording, and the onstop the recorder fires:
\* the tracks stop and the evaluation is requested
togglePracticeRecording_stop ==
  /\ CardMounted /\ alertShown = ""
  /\ cardIsRecording /\ ~isEvaluating
  /\ practiceError' = NULL
  /\ cardIsRecording' = FALSE
  /\ cardLiveStreams' = cardLiveStreams - 1
  /\ isEvaluating' = TRUE
  /\ practiceResult' = NULL
  /\ pendingEvaluate' = pendingEvaluate + 1
  /\ UNCHANGED <<app, inputText, appState, result, errorMsg, isQuotaExceeded, history,
                 savedItems, localStorage, now, pendingTranslate, pendingRead, alertShown,
                 recorded>>
  /\ UNCHANGED <<dictVars, micVars, vocabVars, speechVars>>
  /\ UNCHANGED <<cardPendingMedia, stalePendingMedia>>

\* onstop after the await: evaluatePronunciation settles on a response
evaluateResponds(response) ==
  /\ alertShown = ""
  /\ pendingEvaluate > 0
  /\ pendingEvaluate' = pendingEvaluate - 1
  /\ LET settled == IF app = "App" THEN evaluatePronunciation(response)
                    ELSE evaluatePronunciationEarlier(response)
     IN IF settled.threw
        THEN practiceError' = EvalFailedMsg /\ UNCHANGED practiceResult
        ELSE practiceResult' = settled.value /\ UNCHANGED practiceError
  /\ isEvaluating' = FALSE
  /\ UNCHANGED <<app, inputText, appState, result, errorMsg, isQuotaExceeded, history,
                 savedItems, localStorage, now, pendingTranslate, pendingRead, alertShown,
                 recorded>>
  /\ UNCHANGED <<dictVars, micVars, vocabVars, speechVars>>
  /\ UNCHANGED <<cardIsRecording, cardPendingMedia, stalePendingMedia, cardLiveStreams>>

(* The first VocabularyItem of the card. The list is keyed by index, so   *)
(* the component lives as long as the card and sees the results change.    *)

\* a result written R(j, m) stands for one whose breakdown is the single word
\* j with meaning m and no exampleSentence
firstItem(res) ==
  IF res = NULL THEN NULL
  ELSE IF "breakdown" \in DOMAIN res
  THEN IF res.breakdown = <<>> THEN NULL ELSE res.breakdown[1]
  ELSE IF "englishMeaning" \in DOMAIN res
  THEN [word |-> res.japanese, meaning |-> res.englishMeaning]
  ELSE NULL

\* generateExampleSentence: response.text?.trim() || "", and "" on any error
generateExampleSentence(response) ==
  IF response.kind = "text" THEN trim(response.doc) ELSE <<>>

\* the effects of VocabularyItem have work to do after the last render
EffectsDue ==
  /\ CardMounted
  /\ firstItem(result) # NULL
  /\ \/ shownItem # firstItem(result)
     \/ example = <<>> /\ ~hasFetched /\ ~isLoading

\* the two effects of VocabularyItem, and the render setExample causes: the
\* first resets example and hasFetched when item.word changed, the second
\* fetches when there is no example, no fetch was made and none is loading
VocabularyItem_effects ==
  /\ alertShown = ""
  /\ EffectsDue
  /\ LET item == firstItem(result)
         wordChanged == shownItem = NULL \/ shownItem.word # item.word
         example1 == IF wordChanged THEN <<>> ELSE example
         hasFetched1 == IF wordChanged THEN FALSE ELSE hasFetched
         fetch == example1 = <<>> /\ ~hasFetched1 /\ ~isLoading
         call == <<item.word, item.meaning>>
     IN /\ example' = example1
        /\ hasFetched' = (hasFetched1 \/ fetch)
        /\ isLoading' = (isLoading \/ fetch)
        /\ shownItem' = item
        /\ pendingExample' = IF fetch THEN pendingExample + 1 ELSE pendingExample
        /\ exampleCalls' = IF fetch /\ CopiesIn(call, exampleCalls) < MaxCalls
                           THEN exampleCalls (+) SetToBag({call})
                           ELSE exampleCalls
  /\ UNCHANGED <<app, inputText, appState, result, errorMsg, isQuotaExceeded, history,
                 savedItems, localStorage, now, pendingTranslate, pendingRead, alertShown,
                 recorded>>
  /\ UNCHANGED <<dictVars, micVars, speechVars>>
  /\ UNCHANGED <<cardIsRecording, isEvaluating, practiceResult, practiceError,
                 cardPendingMedia, stalePendingMedia, cardLiveStreams, pendingEvaluate>>

\* .then and .finally of the fetch: generateExampleSentence settles
exampleResponds(response) ==
  /\ alertShown = ""
  /\ pendingExample > 0
  /\ pendingExample' = pendingExample - 1
  /\ example' = IF generateExampleSentence(response) # <<>>
                THEN generateExampleSentence(response)
                ELSE example
  /\ isLoading' = FALSE
  /\ UNCHANGED <<hasFetched, shownItem, exampleCalls>>
  /\ UNCHANGED <<app, inputText, appState, result, errorMsg, isQuotaExceeded, history,
                 savedItems, localStorage, now, pendingTranslate, pendingRead, alertShown,
                 recorded>>
  /\ UNCHANGED <<dictVars, micVars, speechVars>>
  /\ UNCHANGED <<cardIsRecording, isEvaluating, practiceResult, practiceError,
                 cardPendingMedia, stalePendingMedia, cardLiveStreams, pendingEvaluate>>

(* Speech synthesis *)

\* a variant that does not trim the text
cleanText_NoTrim(text) == text

\* const cleanText = text?.trim()
cleanText(text) == trim(text)

\* playJapaneseAudio up to its first await: nothing is done for a text that
\* is empty after trimming, otherwise the speech request is sent
playJapaneseAudio(text) ==
  /\ alertShown = ""
  /\ speechCalls' = speechCalls \cup {text}
  /\ IF cleanText(text) = <<>>
     THEN /\ speechThrew' = FALSE
          /\ UNCHANGED <<pendingSpeech, audioContexts>>
     ELSE /\ BagCardinality(pendingSpeech) < MaxInFlight
          /\ pendingSpeech' = pendingSpeech (+) SetToBag({cleanText(text)})
          /\ UNCHANGED <<audioContexts, speechThrew>>
  /\ UNCHANGED <<app, inputText, appState, result, errorMsg, isQuotaExceeded, history,
                 savedItems, localStorage, now, pendingTranslate, pendingRead, alertShown,
                 recorded>>
  /\ UNCHANGED <<dictVars, micVars, cardVars>>

\* playJapaneseAudio after the await: with audio data an AudioContext is
\* created and the source started; without, or on a rejection, the error is
\* logged, and the earlier service throws it again
speechResponds(text, outcome) ==
  /\ alertShown = ""
  /\ BagIn(text, pendingSpeech)
  /\ pendingSpeech' = pendingSpeech (-) SetToBag({text})
  /\ IF outcome = "audio"
     THEN /\ audioContexts < MaxContexts
          /\ audioContexts' = audioContexts + 1
          /\ speechThrew' = FALSE
     ELSE /\ speechThrew' = (app = "EarlierApp")
          /\ UNCHANGED audioContexts
  /\ UNCHANGED speechCalls
  /\ UNCHANGED <<app, inputText, appState, result, errorMsg, isQuotaExceeded, history,
                 savedItems, localStorage, now, pendingTranslate, pendingRead, alertShown,
                 recorded>>
  /\ UNCHANGED <<dictVars, micVars, cardVars>>

-----------------------------------------------------------------------------
(* Initial states *)

\* the dictionary flow, the voice input and the card after construction
InitDict ==
  /\ dictQuery = <<>>
  /\ dictEntry = NULL
  /\ activeTab = "history"
  /\ pendingDict = EmptyBag

InitMic ==
  /\ isRecording = FALSE
  /\ isTranscribing = FALSE
  /\ pendingMedia = 0
  /\ liveStreams = 0
  /\ pendingTranscribe = 0

InitCard ==
  /\ cardIsRecording = FALSE
  /\ isEvaluating = FALSE
  /\ practiceResult = NULL
  /\ practiceError = NULL
  /\ cardPendingMedia = 0
  /\ stalePendingMedia = 0
  /\ cardLiveStreams = 0
  /\ pendingEvaluate = 0
  /\ example = <<>>
  /\ isLoading = FALSE
  /\ hasFetched = FALSE
  /\ shownItem = NULL
  /\ pendingExample = 0
  /\ exampleCalls = EmptyBag

InitSpeech ==
  /\ pendingSpeech = EmptyBag
  /\ audioContexts = 0
  /\ speechThrew = FALSE
  /\ speechCalls = {}

\* a first visit: both slots of localStorage unset, the load effect finds nothing
Init ==
  /\ app \in {"App", "EarlierApp"}
  /\ inputText = <<>>
  /\ appState = IDLE
  /\ result = NULL
  /\ errorMsg = ""
  /\ isQuotaExceeded = FALSE
  /\ localStorage = [translationHistory |-> NULL, savedTranslations |-> NULL]
  /\ history = loadSlot(localStorage, "translationHistory")
  /\ savedItems = loadSlot(localStorage, "savedTranslations")
  /\ now = 0
  /\ pendingTranslate = EmptyBag
  /\ pendingRead = EmptyBag
  /\ alertShown = ""
  /\ recorded = <<>>
  /\ InitDict /\ InitMic /\ InitCard /\ InitSpeech

-----------------------------------------------------------------------------
(* Spec: every handler, small inputs *)

Texts == {<<>>, <<" ">>, Phrase(1), Capital(1), Phrase(2)}
Results == {R("ja1", "m1"), R("ja2", "m1")}

\* files the user may pick for import
ImportedItem(k, t, j) == HistoryItem(idOf("saved-", k), t, R(j, "m1"), k)
MalformedFile == [text |-> "not json"]
ObjectFile == [text |-> "json", value |-> [type |-> "object"]]
Files ==
  { MalformedFile, ObjectFile,
    JSONstringify(<<ImportedItem(7, Phrase(3), "ja1")>>),
    JSONstringify(<<ImportedItem(7, Phrase(3), "ja1"), [id |-> idOf("saved-", 8)]>>) }

-----------------------------------------------------------------------------
(* SpecHistory: the translate flow and the recent history, with a phrase in  *)
(* three spellings                                                          *)

HistoryTexts == {<<" ">>, Phrase(1), Capital(1), Padded(1)}

NextHistory ==
  \/ \E t \in HistoryTexts : setInputText(t)
  \/ handleTranslate
  \/ \E t \in BagToSet(pendingTranslate), data \in Results : handleTranslate_then(t, data)
  \/ \E t \in BagToSet(pendingTranslate), e \in ErrorMessages : handleTranslate_catch(t, e)
  \/ handleTranslateEarlier
  \/ \E t \in BagToSet(pendingTranslate), data \in Results :
        handleTranslateEarlier_then(t, data)
  \/ \E t \in BagToSet(pendingTranslate) : handleTranslateEarlier_catch(t)
  \/ \E i \in 1..Len(history) : activeTab = "history" /\ handleHistorySelect(history[i])
  \/ \E c \in BOOLEAN : handleClearHistory(c)
  \/ Tick

SpecHistory == Init /\ [][NextHistory]_vars

-----------------------------------------------------------------------------
(* SpecCap: the user works through a list of phrases in order and re-enters  *)
(* the first one in other spellings, typing it or, between two translations,*)
(* selecting it from the list, so that the history fills to its cap and     *)
(* overflows                                                                *)

\* the phrases after the first that have not been recorded yet
Unrecorded ==
  {i \in 2..MaxPhrases : \A k \in 1..Len(recorded) : recorded[k] # Phrase(i)}

CapTexts ==
  {Phrase(1), Capital(1), Padded(1)}
    \cup (IF Unrecorded # {}
          THEN {Phrase(CHOOSE i \in Unrecorded : \A k \in Unrecorded : i <= k)}
          ELSE {})
CapResults == {R("ja1", "m1")}

NextCap ==
  \/ \E t \in CapTexts : setInputText(t)
  \/ handleTranslate
  \/ \E t \in BagToSet(pendingTranslate), data \in CapResults : handleTranslate_then(t, data)
  \/ handleTranslateEarlier
  \/ \E t \in BagToSet(pendingTranslate), data \in CapResults :
        handleTranslateEarlier_then(t, data)
  \/ /\ pendingTranslate = EmptyBag
     /\ \E i \in {k \in 1..Len(history) : normalize(history[k].originalText) = Phrase(1)} :
           activeTab = "history" /\ handleHistorySelect(history[i])
  \/ \E c \in BOOLEAN : handleClearHistory(c)

SpecCap == Init /\ [][NextCap]_vars

-----------------------------------------------------------------------------
(* Claims on the recent history *)

\* the cap of the mounted App
Cap == IF app = "App" THEN HISTORY_CAP ELSE EARLIER_HISTORY_CAP

\* C1: the recent history never holds two items whose originalText is the
\* same once trimmed and case-folded: recording a text whose normalized form
\* is present replaces the item instead of adding a second one.
C1_NoNormalizedDuplicates ==
  \A i, j \in 1..Len(history) :
     i # j => normalize(history[i].originalText) # normalize(history[j].originalText)

\* C2: in every reachable state the recent history holds at most the cap of
\* the mounted App (10 in App.tsx, 6 in the earlier App).
C2_HistoryBounded == Len(history) <= Cap

\* C2 witness: the App.tsx history is full after more than 10 distinct
\* phrases were recorded, so the oldest was dropped at insertion.
C2_Witness ==
  /\ app = "App"
  /\ Len(history) = HISTORY_CAP
  /\ Len(recorded) > HISTORY_CAP

C4_RecordTwiceInARow ==
  [][\A t \in HistoryTexts, d \in Results :
       ( /\ handleTranslate_then(t, d) \/ handleTranslateEarlier_then(t, d)
         /\ history # <<>>
         /\ normalize(history[1].originalText) = normalize(t) )
       => /\ Len(history') = Len(history)
          /\ history'[1].result = d
          /\ trim(history'[1].originalText) = trim(t)
          /\ \A i \in 2..Len(history') :
                normalize(history'[i].originalText) # normalize(t)]_vars

-----------------------------------------------------------------------------
(* SpecSaved: a return visit. The translationHistory slot holds the items of *)
(* an earlier session, two of them with the same Japanese text; the user    *)
(* selects them, edits the input, toggles the save button, deletes saved    *)
(* items and imports files. The items of the earlier session were recorded  *)
(* before this session's clock started.                                     *)

PersistedHistory ==
  << HistoryItem(idOf("", 0 - 1), Phrase(3), R("ja2", "m1"), 0 - 1),
     HistoryItem(idOf("", 0 - 2), Phrase(2), R("ja1", "m1"), 0 - 2),
     HistoryItem(idOf("", 0 - 3), Phrase(1), R("ja1", "m1"), 0 - 3) >>

InitSaved ==
  /\ app \in {"App", "EarlierApp"}
  /\ inputText = <<>>
  /\ appState = IDLE
  /\ result = NULL
  /\ errorMsg = ""
  /\ isQuotaExceeded = FALSE
  /\ localStorage = [translationHistory |-> JSONstringify(PersistedHistory),
                     savedTranslations |-> NULL]
  /\ history = loadSlot(localStorage, "translationHistory")
  /\ savedItems = loadSlot(localStorage, "savedTranslations")
  /\ now = 0
  /\ pendingTranslate = EmptyBag
  /\ pendingRead = EmptyBag
  /\ alertShown = ""
  /\ recorded = <<Phrase(3), Phrase(2), Phrase(1)>>
  /\ InitDict /\ InitMic /\ InitCard /\ InitSpeech

SavedTexts == {Capital(1), Phrase(2)}

\* the two lists under the card
Tabs == {"history", "saved"}

NextSaved ==
  \/ \E t \in SavedTexts : setInputText(t)
  \/ \E i \in 1..Len(history) : activeTab = "history" /\ handleHistorySelect(history[i])
  \/ \E i \in 1..Len(savedItems) : activeTab = "saved" /\ handleHistorySelect(savedItems[i])
  \/ onToggleSave
  \/ toggleSavedItem
  \/ \E i \in 1..Len(savedItems) : handleDeleteSaved(savedItems[i].id)
  \/ \E f \in Files : pendingRead = EmptyBag /\ handleImportSaved(f)
  \/ \E f \in BagToSet(pendingRead) : readerOnload(f)
  \/ \E t \in Tabs : setActiveTab(t)
  \/ dismissAlert
  \/ Tick

SpecSaved == InitSaved /\ [][NextSaved]_vars

-----------------------------------------------------------------------------
(* Claims on the saved items *)

\* some saved item has the Japanese text of the displayed result
SavedByJapanese(items, res) ==
  \E i \in 1..Len(items) : items[i].result.japanese = res.japanese

\* the save button of the displayed card was pressed
ToggleSavedStep == onToggleSave \/ toggleSavedItem

\* C5: the save toggle decides membership by result.japanese alone: when a
\* saved item has the Japanese text of the displayed result, whatever its
\* originalText, the toggle removes it; otherwise the toggle prepends a new
\* entry for the displayed result.
C5_ToggleByJapaneseAlone ==
  [][ToggleSavedStep =>
       IF SavedByJapanese(savedItems, result)
       THEN ~SavedByJapanese(savedItems', result)
       ELSE /\ Len(savedItems') = Len(savedItems) + 1
            /\ savedItems'[1].result = result
            /\ Tail(savedItems') = savedItems]_vars

\* C6: no two saved items have the same result.japanese, after any sequence
\* of toggles, deletes and imports from an empty collection.
C6_SavedDedupByJapanese ==
  \A i, j \in 1..Len(savedItems) :
     i # j => savedItems[i].result.japanese # savedItems[j].result.japanese

\* the collection after the save button is pressed at clock reading n
ToggleSaved(items, n) ==
  IF app = "App" THEN toggleSaveUpdated(items, inputText, result, n)
  ELSE toggleSavedItemUpdated(items, inputText, result, n)

\* the membership test the mounted App applies to the displayed result
IsSaved(items) ==
  IF app = "App" THEN SavedByJapanese(items, result)
  ELSE isAlreadySaved(items, inputText, result)

\* the entry the mounted App creates for the displayed result
NewSaved(n) ==
  IF app = "App" THEN HistoryItem(idOf("", n), inputText, result, n)
  ELSE HistoryItem(idOf("saved-", n), trim(inputText), result, n)

\* the saved items the membership test does not match
NotMatched(items) ==
  SelectSeq(items, LAMBDA x : ~IsSaved(<<x>>))

\* C7 as stated: with a result on display, pressing the save button twice,
\* now or later, with the same input and result returns the saved-items collection to its
\* prior state, both when the result was saved and when it was not.
C7_ToggleTwiceRestores ==
  result # NULL =>
    \A n1 \in now..MaxNow, n2 \in now..MaxNow :
       n1 <= n2 => ToggleSaved(ToggleSaved(savedItems, n1), n2) = savedItems

\* C7 amended: pressing the save button twice restores the collection when
\* the first press adds an entry (the result was not saved). When the first
\* press removes an entry, the second re-creates it: the result is a member
\* again and the other entries keep their order, but the entry is new, at the
\* front, with the id and timestamp of the second press and the text of the
\* input box.
C7_ToggleTwice ==
  result # NULL =>
    \A n1 \in now..MaxNow, n2 \in now..MaxNow :
       n1 <= n2 =>
         LET once == ToggleSaved(savedItems, n1)
             twice == ToggleSaved(once, n2)
         IN IF IsSaved(savedItems)
            THEN /\ ~IsSaved(once)
                 /\ IsSaved(twice)
                 /\ twice = <<NewSaved(n2)>> \o NotMatched(savedItems)
            ELSE /\ IsSaved(once)
                 /\ twice = savedItems

\* C7 witness: the card shows a saved result whose entry is not at the front
\* of a collection built by earlier presses of the save button.
C7_Witness ==
  /\ result # NULL /\ appState = SUCCESS
  /\ IsSaved(savedItems)
  /\ Len(savedItems) >= 2
  /\ ~IsSaved(<<savedItems[1]>>)

\* C8: exporting a non-empty saved-items collection and importing the
\* document into an empty collection yields the exported collection: same
\* items, same order, no field lost.
C8_ExportImportRoundTrip ==
  Len(savedItems) > 0 =>
    LET imported == JSONparse(handleExportSaved(savedItems))
    IN /\ ~imported.threw
       /\ isArray(imported.value)
       /\ mergeImported(<<>>, imported.value.elems) = savedItems

\* C9: reading a file that is malformed JSON, or JSON that is not an array,
\* leaves savedItems and the savedTranslations slot unchanged and surfaces
\* the parse failure, in both cases.
C9_ImportRejectsNonArray ==
  [][\A f \in {MalformedFile, ObjectFile} :
       readerOnload(f) =>
         /\ savedItems' = savedItems
         /\ localStorage' = localStorage
         /\ alertShown' = ImportFailedMsg]_vars

\* the parsed document is an array with an element that is not entry-shaped
HasMisshapenElement(f) ==
  /\ ~JSONparse(f).threw
  /\ isArray(JSONparse(f).value)
  /\ \E i \in 1..Len(JSONparse(f).value.elems) : ~hasJapanese(JSONparse(f).value.elems[i])

\* C10: reading an array with at least one element that is not entry-shaped
\* fails as a whole: no element is merged, savedItems and its slot stay as
\* they were, and no success is reported.
C10_ImportAllOrNothing ==
  [][\A f \in {g \in Files : HasMisshapenElement(g)} :
       readerOnload(f) =>
         /\ savedItems' = savedItems
         /\ localStorage' = localStorage
         /\ alertShown' # ImportOkMsg]_vars

\* the files of Files that parse to an array of entry-shaped records
ValidFiles == {f \in Files : ~JSONparse(f).threw /\ isArray(JSONparse(f).value)
                              /\ ~HasMisshapenElement(f)}

\* the items of a collection, as a set
ItemsOf(items) == {items[i] : i \in 1..Len(items)}

\* C11: after reading a valid array, every saved item whose japanese does not
\* occur in the file is still present unchanged, every record of the file is
\* present, and a saved item whose japanese occurs in the file has given way
\* to the record of the file.
C11_ImportMergesByJapanese ==
  [][\A f \in ValidFiles :
       readerOnload(f) =>
         LET imported == JSONparse(f).value.elems
             inFile(item) == \E k \in 1..Len(imported) :
                                imported[k].result.japanese = item.result.japanese
         IN /\ \A item \in ItemsOf(savedItems) :
                  ~inFile(item) => item \in ItemsOf(savedItems')
            /\ ItemsOf(imported) \subseteq ItemsOf(savedItems')
            /\ \A item \in ItemsOf(savedItems) :
                  (inFile(item) /\ item \notin ItemsOf(imported))
                     => item \notin ItemsOf(savedItems')]_vars

-----------------------------------------------------------------------------
(* SpecFlows: the translate flow and the dictionary flow side by side, with  *)
(* one phrase to translate and one word to look up                          *)

FlowTexts == {Phrase(1)}
FlowResults == {R("ja1", "m1")}
FlowQueries == {<<>>, Phrase(2)}
DictEntry(w) == [word |-> w, reading |-> "r1"]
DictErrorMessages == {"Not found", "got status: 429"}

NextFlows ==
  \/ \E t \in FlowTexts : setInputText(t)
  \/ handleTranslate
  \/ \E t \in BagToSet(pendingTranslate), data \in FlowResults : handleTranslate_then(t, data)
  \/ \E t \in BagToSet(pendingTranslate), e \in ErrorMessages : handleTranslate_catch(t, e)
  \/ handleTranslateEarlier
  \/ \E t \in BagToSet(pendingTranslate), data \in FlowResults :
        handleTranslateEarlier_then(t, data)
  \/ \E t \in BagToSet(pendingTranslate) : handleTranslateEarlier_catch(t)
  \/ \E i \in 1..Len(history) : activeTab = "history" /\ handleHistorySelect(history[i])
  \/ \E t \in Tabs : setActiveTab(t)
  \/ \E q \in FlowQueries : setDictQuery(q)
  \/ handleDictSearch
  \/ \E q \in BagToSet(pendingDict) : handleDictSearch_then(q, DictEntry(q))
  \/ \E q \in BagToSet(pendingDict), e \in DictErrorMessages : handleDictSearch_catch(q, e)
  \/ handleOpenKeySelector

SpecFlows == Init /\ [][NextFlows]_vars

-----------------------------------------------------------------------------
(* Claims on the flows *)

\* C12: at most one translate request is outstanding at any time: a submit
\* while a translate call is in flight is ignored, whatever dictionary
\* searches, history selections and responses come in between.
C12_OneTranslateInFlight == BagCardinality(pendingTranslate) <= 1

\* C13: at most one dictionary lookup is in flight at a time: a further search
\* while one is pending starts no second request.
C13_OneLookupInFlight == BagCardinality(pendingDict) <= 1

\* a step of the translate flow of App.tsx: submit, response or failure
TranslateStep ==
  \/ handleTranslate
  \/ \E t \in BagToSet(pendingTranslate), data \in FlowResults : handleTranslate_then(t, data)
  \/ \E t \in BagToSet(pendingTranslate), e \in ErrorMessages : handleTranslate_catch(t, e)

\* a step of the dictionary flow: search, response or failure
DictStep ==
  \/ handleDictSearch
  \/ \E q \in BagToSet(pendingDict) : handleDictSearch_then(q, DictEntry(q))
  \/ \E q \in BagToSet(pendingDict), e \in DictErrorMessages : handleDictSearch_catch(q, e)

\* what the translate flow shows: its busy label, the stored result, the card
TranslateView == <<appState = TRANSLATING, result, CardMounted>>

\* what the dictionary flow shows: its spinner and the entry
DictView == <<appState = DICTIONARY_LOADING, dictEntry>>

\* C14: the two flows update only their own state: no step of the dictionary
\* flow changes the translate flow's busy state, stored result or the
\* visibility of the result, and no step of the translate flow changes the
\* dictionary flow's loading state or entry.
C14_FlowsIsolated ==
  [][ /\ DictStep => TranslateView' = TranslateView
      /\ TranslateStep => DictView' = DictView ]_vars

\* a step of a translate call that fails: its submit, or its catch
FailedTranslateStep ==
  \/ handleTranslate
  \/ handleTranslateEarlier
  \/ \E t \in BagToSet(pendingTranslate), e \in ErrorMessages : handleTranslate_catch(t, e)
  \/ \E t \in BagToSet(pendingTranslate) : handleTranslateEarlier_catch(t)

\* C15: a translate call that fails touches only the flow's error state and
\* message: neither its submit nor its catch changes the history, the saved
\* items, their persisted slots or the stored translation result.
C15_FailedTranslateFrame ==
  [][FailedTranslateStep => UNCHANGED <<history, savedItems, localStorage, result>>]_vars

\* an AI-service call of App.tsx completes successfully
ServiceSuccessStep ==
  \/ \E t \in BagToSet(pendingTranslate), data \in FlowResults : handleTranslate_then(t, data)
  \/ \E q \in BagToSet(pendingDict) : handleDictSearch_then(q, DictEntry(q))

\* C16: once raised, the quota advisory stays raised until an AI-service call
\* completes successfully, and that success clears it (choosing an own key
\* aside): a step taken while it is raised lowers it exactly when the step is
\* a successful completion.
C16_AdvisoryUntilSuccess ==
  [][(isQuotaExceeded /\ ~handleOpenKeySelector)
        => (isQuotaExceeded' <=> ~ServiceSuccessStep)]_vars

\* the response to a translate request arrives, with a result or a failure
TranslateArrives ==
  \/ \E t \in BagToSet(pendingTranslate), data \in FlowResults : handleTranslate_then(t, data)
  \/ \E t \in BagToSet(pendingTranslate), e \in ErrorMessages : handleTranslate_catch(t, e)
  \/ \E t \in BagToSet(pendingTranslate), data \in FlowResults :
        handleTranslateEarlier_then(t, data)
  \/ \E t \in BagToSet(pendingTranslate) : handleTranslateEarlier_catch(t)

\* the response to a dictionary lookup arrives, with an entry or a failure
DictArrives ==
  \/ \E q \in BagToSet(pendingDict) : handleDictSearch_then(q, DictEntry(q))
  \/ \E q \in BagToSet(pendingDict), e \in DictErrorMessages : handleDictSearch_catch(q, e)

\* C25: a response is applied only while its flow is still in the matching
\* pending state; one that arrives after the state has moved on is discarded
\* and changes nothing that is shown.
C25_StaleResponseDiscarded ==
  [][/\ (TranslateArrives /\ appState # TRANSLATING) =>
          UNCHANGED <<appState, result, errorMsg, isQuotaExceeded, history>>
     /\ (DictArrives /\ appState # DICTIONARY_LOADING) =>
          UNCHANGED <<appState, dictEntry, errorMsg, isQuotaExceeded>>]_vars

-----------------------------------------------------------------------------
(* SpecService: the translate flow on top of the service, the backend        *)
(* answering with complete, partial and unparseable documents, with nothing, *)
(* and with errors                                                           *)

Tones == {"Casual", "Polite", "Formal/Keigo"}
RequiredFields == {"japanese", "romaji", "pronunciation", "englishMeaning", "tone", "breakdown"}

\* a document with every required field of the response schema
FullResult(j, tone) ==
  [japanese |-> j, romaji |-> "ro", pronunciation |-> "pr", englishMeaning |-> "m1",
   tone |-> tone, breakdown |-> <<>>]

JSONdocument(v) == [text |-> "json", value |-> v]

BackendResponses ==
  { TextResponse(JSONdocument(FullResult("ja1", "Polite"))),
    TextResponse(JSONdocument(FullResult("ja2", "Rude"))),
    TextResponse(JSONdocument([japanese |-> "ja3"])),
    TextResponse([text |-> "not json"]),
    EmptyResponse,
    Rejection("got status: 429"),
    Rejection("exceeded your current quota"),
    Rejection("fetch failed"),
    Rejection("") }

ServiceTexts == {Phrase(1), Phrase(2)}

NextService ==
  \/ \E t \in ServiceTexts : setInputText(t)
  \/ handleTranslate
  \/ \E t \in BagToSet(pendingTranslate), r \in BackendResponses : translateResponds(t, r)
  \/ handleTranslateEarlier
  \/ \E t \in BagToSet(pendingTranslate), r \in BackendResponses :
        translateRespondsEarlier(t, r)
  \/ \E i \in 1..Len(history) : activeTab = "history" /\ handleHistorySelect(history[i])

SpecService == Init /\ [][NextService]_vars

\* the responses on which Translate fails
FailingResponses == {r \in BackendResponses : translateTextToJapanese(r).threw}

\* the kind of a failure in the taxonomy of the specification
KindOf(r) ==
  IF r.kind = "empty" THEN "EmptyResponse"
  ELSE IF r.kind = "text" THEN "MalformedResponse"
  ELSE IF includes429(r.message) \/ includesQuota(r.message) THEN "RateLimited"
  ELSE "ServiceError"

\* the message the mounted App surfaces when Translate fails on r
Surfaced(r) ==
  IF app = "App" THEN classifyFailure(translateTextToJapanese(r).message).msg
  ELSE EarlierFailedMsg

\* C17: every failure of Translate ends the flow in ERROR without a retry
\* request, and is surfaced as one of four kinds that can be told apart:
\* failures of two different kinds never surface the same way.
C17_FailureClassified ==
  [][\A t \in ServiceTexts, r1 \in FailingResponses :
       (translateResponds(t, r1) \/ translateRespondsEarlier(t, r1)) =>
         /\ appState' = ERROR
         /\ BagCardinality(pendingTranslate') = BagCardinality(pendingTranslate) - 1
         /\ \A r2 \in FailingResponses :
               KindOf(r2) # KindOf(r1) => Surfaced(r2) # errorMsg']_vars

\* every required field is present and the tone is one of the three
WellFormed(r) ==
  /\ RequiredFields \subseteq DOMAIN r
  /\ r.tone \in Tones

\* C18: Translate either fails or returns a result with every required field
\* present and a tone among Casual, Polite, Formal/Keigo: the result the App
\* stores is never missing a required field, whatever parseable document the
\* backend sends.
C18_ResultWellFormed == result # NULL => WellFormed(result)

-----------------------------------------------------------------------------
(* SpecCard: a translation is shown and the user practises its              *)
(* pronunciation; the backend scores in and out of range, or not at all     *)

PronunciationResult(score) == [score |-> score, transcript |-> "tr", feedback |-> "fb"]

EvalResponses ==
  { TextResponse(JSONdocument(PronunciationResult(85))),
    TextResponse(JSONdocument(PronunciationResult(150))),
    TextResponse(JSONdocument(PronunciationResult(0 - 5))),
    TextResponse([text |-> "not json"]),
    EmptyResponse,
    Rejection("fetch failed") }

NextCard ==
  \/ \E t \in FlowTexts : setInputText(t)
  \/ handleTranslate
  \/ \E t \in BagToSet(pendingTranslate), data \in FlowResults : handleTranslate_then(t, data)
  \/ handleTranslateEarlier
  \/ \E t \in BagToSet(pendingTranslate), data \in FlowResults :
        handleTranslateEarlier_then(t, data)
  \/ togglePracticeRecording_start
  \/ togglePracticeRecording_granted
  \/ togglePracticeRecording_denied
  \/ \E granted \in BOOLEAN : togglePracticeRecording_stale(granted)
  \/ togglePracticeRecording_stop
  \/ \E r \in EvalResponses : evaluateResponds(r)

SpecCard == Init /\ [][NextCard]_vars

\* C19: the practice result the card stores and shows has a score that is
\* present and an integer in 0..100, with transcript and feedback present,
\* whatever the backend answered.
C19_ScoreInRange ==
  practiceResult # NULL =>
    /\ {"score", "transcript", "feedback"} \subseteq DOMAIN practiceResult
    /\ practiceResult.score \in 0..100

-----------------------------------------------------------------------------
(* SpecMic: the user dictates, edits the text while the transcription is    *)
(* pending, and translations fail in between                                *)

MicTexts == {<<>>, Phrase(1)}

\* a transcription is delivered only while the input text is this short
MaxInputLen == 3

TranscribeResponses ==
  { TextResponse(<<" ", "x", " ">>),
    TextResponse(<<" ">>),
    EmptyResponse,
    Rejection("got status: 429"),
    Rejection("fetch failed") }

NextMic ==
  \/ \E t \in MicTexts : setInputText(t)
  \/ toggleRecording_start
  \/ toggleRecording_granted
  \/ toggleRecording_denied
  \/ toggleRecording_stop
  \/ \E r \in TranscribeResponses : Len(inputText) <= MaxInputLen /\ transcribeResponds(r)
  \/ dismissAlert
  \/ handleTranslate
  \/ \E t \in BagToSet(pendingTranslate) : handleTranslate_catch(t, "Empty response")
  \/ handleTranslateEarlier
  \/ \E t \in BagToSet(pendingTranslate) : handleTranslateEarlier_catch(t)

SpecMic == Init /\ [][NextMic]_vars

\* what transcribeAudio returned for a response, in the App that is running
Transcribed(r) == IF app = "App" THEN transcribeAudio(r) ELSE transcribeAudioEarlier(r)

\* C20: a completed transcription only appends. When transcribeAudio returns
\* a non-empty text t, the input text becomes the text present at that moment,
\* a single space if that text was non-empty, and t; when it returns the empty
\* string, the input text, the error message and the application state are
\* left as they are.
C20_TranscriptionAppends ==
  [][\A r \in TranscribeResponses :
       (transcribeResponds(r) /\ ~Transcribed(r).threw) =>
         IF Transcribed(r).value # <<>>
         THEN inputText' = inputText
                           \o (IF inputText # <<>> THEN <<" ">> ELSE <<>>)
                           \o Transcribed(r).value
         ELSE /\ inputText' = inputText
              /\ errorMsg' = errorMsg
              /\ appState' = appState]_vars

\* a transcript has been appended to a text typed while it was pending
C20_Witness ==
  /\ inputText = Phrase(1) \o <<" ">> \o <<"x">>
  /\ ~isTranscribing


\* C28: whenever transcribeAudio throws, a message about the transcription
\* is set for the user, and isTranscribing returns to false.
C28_TranscriptionFailureSurfaced ==
  [][\A r \in TranscribeResponses :
       (transcribeResponds(r) /\ Transcribed(r).threw) =>
         /\ errorMsg' \in {TranscribeQuotaMsg, EarlierTranscribeFailedMsg}
         /\ ~isTranscribing']_vars

\* C21: while a transcription is in progress no recording is active, and at
\* most one transcription is in flight.
C21_NoRecordingWhileTranscribing ==
  /\ ~(isRecording /\ isTranscribing)
  /\ pendingTranscribe <= 1

\* C22: at most one microphone stream is open at a time, and when no
\* recording is active and no start is pending every stream that was opened
\* has had its tracks stopped.
C22_StreamExclusiveAndReleased ==
  /\ liveStreams <= 1
  /\ (~isRecording /\ pendingMedia = 0) => liveStreams = 0

-----------------------------------------------------------------------------
(* SpecVocab: results are shown, re-selected from the history, and their   *)
(* first vocabulary item fetches its example sentence                      *)

VocabTexts == {Phrase(1), Phrase(2)}
VocabResults == {R("ja1", "m1"), R("ja2", "m2")}
ExampleResponses == {TextResponse(<<" ", "e">>), EmptyResponse, Rejection("fetch failed")}

\* the effects run before the next event is handled
NextVocab ==
  \/ VocabularyItem_effects
  \/ \E r \in ExampleResponses : ~EffectsDue /\ exampleResponds(r)
  \/ \E t \in VocabTexts : ~EffectsDue /\ setInputText(t)
  \/ ~EffectsDue /\ handleTranslate
  \/ \E t \in BagToSet(pendingTranslate), data \in VocabResults :
        ~EffectsDue /\ handleTranslate_then(t, data)
  \/ ~EffectsDue /\ handleTranslateEarlier
  \/ \E t \in BagToSet(pendingTranslate), data \in VocabResults :
        ~EffectsDue /\ handleTranslateEarlier_then(t, data)
  \/ \E i \in 1..Len(history) :
        ~EffectsDue /\ activeTab = "history" /\ pendingTranslate = EmptyBag
        /\ handleHistorySelect(history[i])

SpecVocab == Init /\ [][NextVocab]_vars

\* C23: generateExampleSentence is called at most once for each
\* (word, meaning), whatever results are shown and selected again.
C23_ExampleFetchedOnce ==
  \A call \in BagToSet(exampleCalls) : CopiesIn(call, exampleCalls) <= 1

-----------------------------------------------------------------------------
(* SpecSpeech: playJapaneseAudio is called with blank and non-blank texts   *)

SpeechTexts == {<<>>, <<" ">>, Phrase(1), Padded(1)}
SpeechOutcomes == {"audio", "no audio", "rejected"}

NextSpeech ==
  \/ \E t \in SpeechTexts : playJapaneseAudio(t)
  \/ \E t \in BagToSet(pendingSpeech), o \in SpeechOutcomes : speechResponds(t, o)

SpecSpeech == Init /\ [][NextSpeech]_vars

-----------------------------------------------------------------------------
(* Claims on the items of the two collections *)

\* the entry of a list that the result on display can have been selected from
YieldedBy(items, text, res) ==
  \E i \in 1..Len(items) :
    /\ "result" \in DOMAIN items[i]
    /\ items[i].result = res
    /\ items[i].originalText = text

\* C29: the item the save button creates pairs the result on display with
\* the text that yielded it, the text of the entry it was selected from,
\* whatever the input box holds when the button is pressed.
C29_SavedTextYieldedResult ==
  [][(ToggleSavedStep /\ Len(savedItems') > Len(savedItems)) =>
        \/ YieldedBy(history, savedItems'[1].originalText, savedItems'[1].result)
        \/ YieldedBy(savedItems, savedItems'[1].originalText, savedItems'[1].result)]_vars


\* no two elements of the list carry the same id
UniqueIds(items) ==
  \A i, j \in 1..Len(items) : i # j => items[i].id # items[j].id

\* C26: within the recent history, and within the saved items, no two items
\* share an id.
C26_IdsUnique ==
  /\ UniqueIds(history)
  /\ UniqueIds(savedItems)

-----------------------------------------------------------------------------
(* SpecPersist: every operation that changes one of the two collections,   *)
(* one translate request at a time                                         *)

PersistTexts == {Phrase(1), Phrase(2)}
PersistResults == {R("ja1", "m1"), R("ja2", "m1")}

NextPersist ==
  \/ \E t \in PersistTexts : setInputText(t)
  \/ pendingTranslate = EmptyBag /\ handleTranslate
  \/ \E t \in BagToSet(pendingTranslate), data \in PersistResults :
        handleTranslate_then(t, data)
  \/ pendingTranslate = EmptyBag /\ handleTranslateEarlier
  \/ \E t \in BagToSet(pendingTranslate), data \in PersistResults :
        handleTranslateEarlier_then(t, data)
  \/ \E c \in BOOLEAN : handleClearHistory(c)
  \/ onToggleSave
  \/ toggleSavedItem
  \/ \E i \in 1..Len(savedItems) : handleDeleteSaved(savedItems[i].id)
  \/ \E f \in Files : handleImportSaved(f)
  \/ \E f \in BagToSet(pendingRead) : readerOnload(f)
  \/ dismissAlert

SpecPersist == Init /\ [][NextPersist]_vars

\* C27: each persisted slot deserializes to the collection in memory, so a
\* reload at any point restores the same recent history and saved items.
C27_WriteThrough ==
  /\ loadSlot(localStorage, "translationHistory") = history
  /\ loadSlot(localStorage, "savedTranslations") = savedItems

\* both collections were changed and written
C27_Witness ==
  /\ Len(history) = 2
  /\ Len(savedItems) = 2
  /\ localStorage.translationHistory # NULL
  /\ localStorage.savedTranslations # NULL

\* the list without its i-th element
RemoveAt(items, i) ==
  [k \in 1..(Len(items) - 1) |-> IF k < i THEN items[k] ELSE items[k + 1]]

\* C30: deleting a saved item by its id removes that one item: the saved
\* items become the prior list without a single element, the others in
\* their order, and the recent history is untouched.
C30_DeleteRemovesOne ==
  [][(\E i \in 1..Len(savedItems) : handleDeleteSaved(savedItems[i].id)) =>
        /\ \E i \in 1..Len(savedItems) : savedItems' = RemoveAt(savedItems, i)
        /\ history' = history]_vars

-----------------------------------------------------------------------------
(* The whole program *)

Next ==
  \/ \E t \in Texts : setInputText(t)
  \/ handleTranslate
  \/ \E t \in BagToSet(pendingTranslate), data \in Results : handleTranslate_then(t, data)
  \/ \E t \in BagToSet(pendingTranslate), e \in ErrorMessages : handleTranslate_catch(t, e)
  \/ handleTranslateEarlier
  \/ \E t \in BagToSet(pendingTranslate), data \in Results :
        handleTranslateEarlier_then(t, data)
  \/ \E t \in BagToSet(pendingTranslate) : handleTranslateEarlier_catch(t)
  \/ \E i \in 1..Len(history) : activeTab = "history" /\ handleHistorySelect(history[i])
  \/ \E i \in 1..Len(savedItems) : activeTab = "saved" /\ handleHistorySelect(savedItems[i])
  \/ \E c \in BOOLEAN : handleClearHistory(c)
  \/ onToggleSave
  \/ toggleSavedItem
  \/ \E i \in 1..Len(savedItems) : handleDeleteSaved(savedItems[i].id)
  \/ \E f \in Files : handleImportSaved(f)
  \/ \E f \in BagToSet(pendingRead) : readerOnload(f)
  \/ dismissAlert
  \/ Tick
  \/ \E t \in Tabs : setActiveTab(t)
  \/ \E q \in FlowQueries : setDictQuery(q)
  \/ handleDictSearch
  \/ \E q \in BagToSet(pendingDict) : handleDictSearch_then(q, DictEntry(q))
  \/ \E q \in BagToSet(pendingDict), e \in DictErrorMessages : handleDictSearch_catch(q, e)
  \/ handleOpenKeySelector
  \/ \E t \in BagToSet(pendingTranslate), r \in BackendResponses : translateResponds(t, r)
  \/ \E t \in BagToSet(pendingTranslate), r \in BackendResponses :
        translateRespondsEarlier(t, r)
  \/ toggleRecording_start
  \/ toggleRecording_granted
  \/ toggleRecording_denied
  \/ toggleRecording_stop
  \/ \E r \in TranscribeResponses : transcribeResponds(r)
  \/ togglePracticeRecording_start
  \/ togglePracticeRecording_granted
  \/ togglePracticeRecording_denied
  \/ \E granted \in BOOLEAN : togglePracticeRecording_stale(granted)
  \/ togglePracticeRecording_stop
  \/ \E r \in EvalResponses : evaluateResponds(r)
  \/ VocabularyItem_effects
  \/ \E r \in ExampleResponses : exampleResponds(r)
  \/ \E t \in SpeechTexts : playJapaneseAudio(t)
  \/ \E t \in BagToSet(pendingSpeech), o \in SpeechOutcomes : speechResponds(t, o)

Spec == Init /\ [][Next]_vars

=============================================================================
